---- MODULE Spec2Model ----
(***************************************************************************)
(* Model of the seat reservation path of function_app.py: reserve_seats,   *)
(* the two blobs it rewrites (seat_availability.json, reservations.jsonl), *)
(* the projections get_seat_availability / get_show_schedule and the       *)
(* lookup get_reservation_details.                                         *)
(*                                                                         *)
(* Strings are sequences of one-character strings, so that splitting,     *)
(* stripping, the seat id pattern, f"{row}{num}" and int(seat_id[1:]) are  *)
(* computed as the code computes them.                                     *)
(***************************************************************************)
EXTENDS Integers, Sequences, FiniteSets, TLC

(* ------------------------------ bounds --------------------------------- *)
\* number of concurrently running invocations of reserve_seats
NumProcs == 2
\* total number of reserve_seats invocations in a behaviour
MaxCalls == 2
\* last clock reading (in clock ticks) a behaviour reaches
MaxClock == 2
\* clock ticks per second: datetime.now() has sub-second resolution
TicksPerSecond == 2
MaxReads == 2

Procs == 1..NumProcs

(* --------------------------- string helpers ---------------------------- *)
UpperLetters ==
  {"A","B","C","D","E","F","G","H","I","J","K","L","M",
   "N","O","P","Q","R","S","T","U","V","W","X","Y","Z"}
DigitChar == <<"0","1","2","3","4","5","6","7","8","9">>
DigitChars == {DigitChar[i] : i \in 1..10}
Whitespace == {" "}

DigitVal(c) == (CHOOSE i \in 1..10 : DigitChar[i] = c) - 1

\* str(n) of a non-negative int, as f"{row['row']}{seat_num}" formats it
RECURSIVE Str(_)
Str(n) == IF n < 10 THEN <<DigitChar[n + 1]>>
          ELSE Str(n \div 10) \o <<DigitChar[(n % 10) + 1]>>

\* int(ds) of a sequence of decimal digits
RECURSIVE IntOf(_)
IntOf(ds) == IF ds = <<>> THEN 0
             ELSE 10 * IntOf(SubSeq(ds, 1, Len(ds) - 1)) + DigitVal(ds[Len(ds)])

\* s.split(",")
RECURSIVE Split(_)
Split(s) ==
  IF \A i \in 1..Len(s) : s[i] # ","
  THEN <<s>>
  ELSE LET i == CHOOSE k \in 1..Len(s) :
                  s[k] = "," /\ \A j \in 1..(k - 1) : s[j] # ","
       IN <<SubSeq(s, 1, i - 1)>> \o Split(SubSeq(s, i + 1, Len(s)))

\* s.strip()
RECURSIVE Strip(_)
Strip(s) ==
  IF s = <<>> THEN s
  ELSE IF s[1] \in Whitespace THEN Strip(Tail(s))
  ELSE IF s[Len(s)] \in Whitespace THEN Strip(SubSeq(s, 1, Len(s) - 1))
  ELSE s

\* [seat_id.strip() for seat_id in seat_ids_str.split(",") if seat_id.strip()]
RECURSIVE StripAll(_)
StripAll(ts) ==
  IF ts = <<>> THEN <<>>
  ELSE IF Strip(Head(ts)) = <<>> THEN StripAll(Tail(ts))
  ELSE <<Strip(Head(ts))>> \o StripAll(Tail(ts))

parse_seat_ids(seat_ids_str) == StripAll(Split(seat_ids_str))

\* _SEAT_ID_PATTERN = ^[A-Z]\d+$
validate_seat_id_format(seat_id) ==
  /\ Len(seat_id) >= 2
  /\ seat_id[1] \in UpperLetters
  /\ \A i \in 2..Len(seat_id) : seat_id[i] \in DigitChars

\* mutant of Insert: the element goes to the front, so sorted leaves its
\* argument as it is
Insert_Front(x, s) == <<x>> \o s

\* sorted(list of ints)
RECURSIVE Insert(_, _)
Insert(x, s) == IF s = <<>> THEN <<x>>
                ELSE IF x <= Head(s) THEN <<x>> \o s
                ELSE <<Head(s)>> \o Insert(x, Tail(s))
RECURSIVE sorted(_)
sorted(s) == IF s = <<>> THEN <<>> ELSE Insert(Head(s), sorted(Tail(s)))

Range(s) == {s[i] : i \in 1..Len(s)}

(* ------------------------------ catalogs ------------------------------- *)
S1 == <<"S","1">>
S2 == <<"S","2">>
S3 == <<"S","3">>
SX == <<"S","X">>

\* movies/schedules.json: S3 refers to a movie that movies.json does not have
schedules ==
  << [schedule_id |-> S1, movie_id |-> "M1"],
     [schedule_id |-> S2, movie_id |-> "M2"],
     [schedule_id |-> S3, movie_id |-> "M9"] >>
\* movies/movies.json
movies == << [movie_id |-> "M1"], [movie_id |-> "M2"] >>

Rows == {"A", "B"}

\* movies/seat_availability.json as deployed
InitialSeatData ==
  (S1 :> [available_seats |-> [r \in Rows |-> IF r = "A" THEN <<1, 2>> ELSE <<1>>],
          occupied_seats  |-> [r \in Rows |-> IF r = "A" THEN <<3>> ELSE <<>>]])
  @@
  (S2 :> [available_seats |-> [r \in Rows |-> IF r = "A" THEN <<1>> ELSE <<>>],
          occupied_seats  |-> [r \in Rows |-> <<>>]])

(* --------------------------- request inputs ---------------------------- *)
\* the seat_ids strings tried on schedule S1
SeatIdsArgs ==
  { <<"A","1">>,                       \* A1
    <<"A","2">>,                       \* A2
    <<"A","1",",","A","2">>,           \* A1,A2
    <<"A","2",",","A","1">>,           \* A2,A1
    <<"A","1",",","A","1">>,           \* A1,A1
    <<" ","B","1"," ",",">>,           \* " B1 ,"
    <<"A","3">>,                       \* A3 (occupied from the start)
    <<"A","1",",","A","3">>,           \* A1,A3
    <<"A","3",",","A","1">>,           \* A3,A1
    <<"Z","9">>,                       \* Z9 (no such row)
    <<"a","1">>,                       \* a1 (malformed)
    <<",">>,                           \* only separators
    <<>> }                             \* empty string
\* the (schedule_id, seat_ids) arguments tried
Requests ==
  ({S1} \X SeatIdsArgs)
  \cup { <<S2, <<"A","1">> >>,         \* another screening
         <<S3, <<"A","1">> >>,         \* its movie is not in the catalog
         <<SX, <<"A","1">> >>,         \* not in the catalog
         <<SX, <<"a","1">> >>,
         <<SX, <<>> >>,
         << <<>>, <<"A","1">> >> }     \* no schedule_id

(* ------------------------------- state --------------------------------- *)
VARIABLES
  seat_blob,              \* movies/seat_availability.json
  reservations_blob,      \* movies/reservations.jsonl, a sequence of lines
  clock,                  \* datetime.now(), in ticks
  pc,                     \* position of each invocation of reserve_seats
  schedule_id,            \* argument schedule_id
  seat_ids_str,           \* argument seat_ids
  seat_ids,               \* local seat_ids
  seat_data,              \* local seat_data (the whole parsed seat file)
  reservation_data,       \* local reservation_data
  existing_reservations,  \* local existing_reservations
  response,               \* what the invocation returned
  calls,                  \* number of invocations so far
  call_no,                \* the number of each process's current invocation
  returned,               \* history: the reservations returned to callers
  acked,                  \* history: the invocations whose write of the
                          \* reservation file returned (line 695)
  reads                   \* history: what get_seat_availability returned,
                          \* call after call, since the seat file was written

vars == << seat_blob, reservations_blob, clock, pc, schedule_id, seat_ids_str,
           seat_ids, seat_data, reservation_data, existing_reservations,
           response, calls, call_no, returned, acked, reads >>

locals == << seat_ids, seat_data, reservation_data, existing_reservations >>

NoSeatData == [s \in {} |-> 0]
NoReservation ==
  [reservation_id |-> <<>>, schedule_id |-> <<>>, seat_ids |-> <<>>,
   reservation_time |-> 0, status |-> "none"]
NoResponse ==
  [kind |-> "none", error |-> "", seat_id |-> <<>>, reservation |-> NoReservation]
Error(msg, seat) ==
  [kind |-> "error", error |-> msg, seat_id |-> seat, reservation |-> NoReservation]
Success(res) ==
  [kind |-> "reservation", error |-> "", seat_id |-> <<>>, reservation |-> res]

\* a line of reservations.jsonl: json.dumps(reservation), or text that is not JSON
MalformedLine == [malformed |-> TRUE, json |-> NoReservation]
JsonLine(reservation) == [malformed |-> FALSE, json |-> reservation]

Init ==
  /\ seat_blob = InitialSeatData
  /\ reservations_blob = <<>>
  /\ clock = 0
  /\ pc = [p \in Procs |-> "idle"]
  /\ schedule_id = [p \in Procs |-> <<>>]
  /\ seat_ids_str = [p \in Procs |-> <<>>]
  /\ seat_ids = [p \in Procs |-> <<>>]
  /\ seat_data = [p \in Procs |-> NoSeatData]
  /\ reservation_data = [p \in Procs |-> NoReservation]
  /\ existing_reservations = [p \in Procs |-> <<>>]
  /\ response = [p \in Procs |-> NoResponse]
  /\ calls = 0
  /\ call_no = [p \in Procs |-> 0]
  /\ returned = {}
  /\ acked = {}
  /\ reads = <<>>

(* --------------------------- blob utilities ---------------------------- *)
\* load_jsonl_from_blob: json.loads of every line; one line that is not JSON
\* raises JSONDecodeError for the whole load
load_jsonl_from_blob(content) ==
  IF \E i \in 1..Len(content) : content[i].malformed
  THEN [raised |-> TRUE, value |-> <<>>]
  ELSE [raised |-> FALSE, value |-> [i \in 1..Len(content) |-> content[i].json]]

\* '\n'.join(json.dumps(r) for r in existing_reservations) + '\n'
dump_jsonl(reservations) ==
  [i \in 1..Len(reservations) |-> JsonLine(reservations[i])]

\* generate_reservation_id: "RES" + strftime("%Y%m%d%H%M%S"), the clock cut
\* to whole seconds
generate_reservation_id(now) ==
  <<"R", "E", "S">> \o Str(now \div TicksPerSecond)

\* mutant of FirstTrue: the index of the last TRUE
LastTrue(b) ==
  IF \E i \in 1..Len(b) : b[i]
  THEN CHOOSE i \in 1..Len(b) : b[i] /\ \A j \in (i + 1)..Len(b) : ~b[j]
  ELSE 0

\* the index of the first TRUE of a list of test results, 0 when there is none
\* (for x in xs: if test(x): ... break / return)
FirstTrue(b) ==
  IF \E i \in 1..Len(b) : b[i]
  THEN CHOOSE i \in 1..Len(b) : b[i] /\ \A j \in 1..(i - 1) : ~b[j]
  ELSE 0

\* for s in schedules: if s["schedule_id"] == schedule_id: ... break
find_schedule(sid) ==
  FirstTrue([i \in 1..Len(schedules) |-> schedules[i].schedule_id = sid])
\* for m in movies: if m["movie_id"] == schedule["movie_id"]: ... break
find_movie(mid) ==
  FirstTrue([i \in 1..Len(movies) |-> movies[i].movie_id = mid])

(* ------------------- reserve_seats, lines 551 to 613 -------------------- *)
\* mutant of validate_request: the movie of the schedule is not looked up
validate_request_NoMovieLookup(sid, str) ==
  LET ids == parse_seat_ids(str)
      bad == FirstTrue([i \in 1..Len(ids) |-> ~validate_seat_id_format(ids[i])])
  IN IF sid = <<>> THEN Error("schedule_id is required.", <<>>)
     ELSE IF str = <<>> THEN Error("seat_ids is required.", <<>>)
     ELSE IF Len(sid) > 20 THEN Error("Schedule ID too long.", <<>>)
     ELSE IF Len(str) > 100 THEN Error("Seat IDs string too long.", <<>>)
     ELSE IF ids = <<>> THEN Error("No valid seat IDs provided.", <<>>)
     ELSE IF bad # 0 THEN Error("Invalid seat ID format", ids[bad])
     ELSE IF find_schedule(sid) = 0 THEN Error("Schedule not found.", <<>>)
     ELSE NoResponse

\* argument validation and catalog lookups; NoResponse when all pass
validate_request(sid, str) ==
  LET ids == parse_seat_ids(str)
      bad == FirstTrue([i \in 1..Len(ids) |-> ~validate_seat_id_format(ids[i])])
      si == find_schedule(sid)
  IN IF sid = <<>> THEN Error("schedule_id is required.", <<>>)
     ELSE IF str = <<>> THEN Error("seat_ids is required.", <<>>)
     ELSE IF Len(sid) > 20 THEN Error("Schedule ID too long.", <<>>)
     ELSE IF Len(str) > 100 THEN Error("Seat IDs string too long.", <<>>)
     ELSE IF ids = <<>> THEN Error("No valid seat IDs provided.", <<>>)
     ELSE IF bad # 0 THEN Error("Invalid seat ID format", ids[bad])
     ELSE IF si = 0 THEN Error("Schedule not found.", <<>>)
     ELSE IF find_movie(schedules[si].movie_id) = 0
          THEN Error("Movie not found.", <<>>)
     ELSE NoResponse

(* ------------------- reserve_seats, lines 633 to 668 -------------------- *)
\* available_seats.add(f"{row['row']}{seat_num}")
available_seat_set(seat_info) ==
  UNION { { <<r>> \o Str(seat_info.available_seats[r][i]) :
              i \in 1..Len(seat_info.available_seats[r]) } :
          r \in DOMAIN seat_info.available_seats }

\* seats_to_move[row]: int(seat_id[1:]) of the requested seats of the row, in
\* request order (the empty list when the row is not a key)
RECURSIVE seats_to_move(_, _)
seats_to_move(ids, row) ==
  IF ids = <<>> THEN <<>>
  ELSE (IF Head(ids)[1] = row THEN <<IntOf(Tail(Head(ids)))>> ELSE <<>>)
       \o seats_to_move(Tail(ids), row)

NotIn(s, drop) ==
  LET Keep(n) == n \notin Range(drop) IN SelectSeq(s, Keep)

\* mutant of move_seats: the seats are added to the occupied numbers but
\* stay in the available numbers
move_seats_KeepAvailable(seat_info, ids) ==
  [available_seats |-> seat_info.available_seats,
   occupied_seats |->
     [r \in DOMAIN seat_info.occupied_seats |->
        IF seats_to_move(ids, r) # <<>>
        THEN sorted(seat_info.occupied_seats[r] \o seats_to_move(ids, r))
        ELSE seat_info.occupied_seats[r]]]

\* the in-place update of seat_info
move_seats(seat_info, ids) ==
  [available_seats |->
     [r \in DOMAIN seat_info.available_seats |->
        IF seats_to_move(ids, r) # <<>>
        THEN NotIn(seat_info.available_seats[r], seats_to_move(ids, r))
        ELSE seat_info.available_seats[r]],
   occupied_seats |->
     [r \in DOMAIN seat_info.occupied_seats |->
        IF seats_to_move(ids, r) # <<>>
        THEN sorted(seat_info.occupied_seats[r] \o seats_to_move(ids, r))
        ELSE seat_info.occupied_seats[r]]]

(* ----------------------------- reserve_seats --------------------------- *)
\* return json.dumps(...): the invocation ends and its locals are gone
Return(p, resp) ==
  /\ pc' = [pc EXCEPT ![p] = "done"]
  /\ response' = [response EXCEPT ![p] = resp]
  /\ seat_ids' = [seat_ids EXCEPT ![p] = <<>>]
  /\ seat_data' = [seat_data EXCEPT ![p] = NoSeatData]
  /\ reservation_data' = [reservation_data EXCEPT ![p] = NoReservation]
  /\ existing_reservations' = [existing_reservations EXCEPT ![p] = <<>>]

\* mutant of Invoke: the schedule is looked up before the shape of the
\* arguments is checked
Invoke_ScheduleFirst(p, sid, str) ==
  /\ pc[p] \in {"idle", "done"}
  /\ calls < MaxCalls
  /\ calls' = calls + 1
  /\ call_no' = [call_no EXCEPT ![p] = calls + 1]
  /\ schedule_id' = [schedule_id EXCEPT ![p] = sid]
  /\ seat_ids_str' = [seat_ids_str EXCEPT ![p] = str]
  /\ IF find_schedule(sid) = 0
     THEN Return(p, Error("Schedule not found.", <<>>))
     ELSE IF validate_request(sid, str) # NoResponse
     THEN Return(p, validate_request(sid, str))
     ELSE /\ pc' = [pc EXCEPT ![p] = "load_seats"]
          /\ response' = [response EXCEPT ![p] = NoResponse]
          /\ seat_ids' = [seat_ids EXCEPT ![p] = parse_seat_ids(str)]
          /\ UNCHANGED << seat_data, reservation_data, existing_reservations >>
  /\ UNCHANGED << seat_blob, reservations_blob, clock, returned, acked, reads >>

\* lines 551 to 613: a new invocation parses and validates its arguments and
\* resolves the schedule and its movie in the (read-only) catalogs
Invoke(p, sid, str) ==
  /\ pc[p] \in {"idle", "done"}
  /\ calls < MaxCalls
  /\ calls' = calls + 1
  /\ call_no' = [call_no EXCEPT ![p] = calls + 1]
  /\ schedule_id' = [schedule_id EXCEPT ![p] = sid]
  /\ seat_ids_str' = [seat_ids_str EXCEPT ![p] = str]
  /\ IF validate_request(sid, str) # NoResponse
     THEN Return(p, validate_request(sid, str))
     ELSE /\ pc' = [pc EXCEPT ![p] = "load_seats"]
          /\ response' = [response EXCEPT ![p] = NoResponse]
          /\ seat_ids' = [seat_ids EXCEPT ![p] = parse_seat_ids(str)]
          /\ UNCHANGED << seat_data, reservation_data, existing_reservations >>
  /\ UNCHANGED << seat_blob, reservations_blob, clock, returned, acked, reads >>

\* lines 615 to 631: read the seat file and find the schedule's seat_info
LoadSeats(p) ==
  /\ pc[p] = "load_seats"
  /\ IF schedule_id[p] \notin DOMAIN seat_blob
     THEN Return(p, Error("Seat data not available.", <<>>))
     ELSE /\ seat_data' = [seat_data EXCEPT ![p] = seat_blob]
          /\ pc' = [pc EXCEPT ![p] = "check_seats"]
          /\ UNCHANGED << response, seat_ids, reservation_data,
                          existing_reservations >>
  /\ UNCHANGED << seat_blob, reservations_blob, clock, schedule_id,
                  seat_ids_str, calls, call_no, returned,
                  acked, reads >>

\* lines 633 to 680: check the requested seats against the seat_info read,
\* move them in the local copy and build reservation_data
CheckSeats(p) ==
  /\ pc[p] = "check_seats"
  /\ LET seat_info == seat_data[p][schedule_id[p]]
         taken == FirstTrue([i \in 1..Len(seat_ids[p]) |->
                     seat_ids[p][i] \notin available_seat_set(seat_info)])
     IN IF taken # 0
        THEN Return(p, Error("Seat is already occupied.", seat_ids[p][taken]))
        ELSE /\ seat_data' = [seat_data EXCEPT ![p][schedule_id[p]] =
                                move_seats(seat_info, seat_ids[p])]
             /\ reservation_data' = [reservation_data EXCEPT ![p] =
                  [reservation_id |-> generate_reservation_id(clock),
                   schedule_id |-> schedule_id[p],
                   seat_ids |-> seat_ids[p],
                   reservation_time |-> clock,
                   status |-> "confirmed"]]
             /\ pc' = [pc EXCEPT ![p] = "load_reservations"]
             /\ UNCHANGED << response, seat_ids, existing_reservations >>
  /\ UNCHANGED << seat_blob, reservations_blob, clock, schedule_id,
                  seat_ids_str, calls, call_no, returned,
                  acked, reads >>

\* lines 682 to 689: read the reservation file (an empty list when the load
\* raises) and append the new reservation to the list read
LoadReservations(p) ==
  /\ pc[p] = "load_reservations"
  /\ LET loaded == load_jsonl_from_blob(reservations_blob)
     IN existing_reservations' = [existing_reservations EXCEPT ![p] =
          Append(IF loaded.raised THEN <<>> ELSE loaded.value,
                 reservation_data[p])]
  /\ pc' = [pc EXCEPT ![p] = "save_reservations"]
  /\ UNCHANGED << seat_blob, reservations_blob, clock, schedule_id,
                  seat_ids_str, seat_ids, seat_data, reservation_data,
                  response, calls, call_no, returned,
                  acked, reads >>

\* lines 691 to 695: rewrite the reservation file with the list
SaveReservations(p) ==
  /\ pc[p] = "save_reservations"
  /\ reservations_blob' = dump_jsonl(existing_reservations[p])
  /\ pc' = [pc EXCEPT ![p] = "save_seats"]
  /\ acked' = acked \cup {call_no[p]}
  /\ UNCHANGED << seat_blob, clock, schedule_id, seat_ids_str, locals,
                  response, calls, call_no, returned, reads >>

\* mutant of SaveReservationsFail: the exception of the write is swallowed, as
\* the one of the load is, and the invocation goes on to the seat file
SaveReservationsFail_Swallowed(p) ==
  /\ pc[p] = "save_reservations"
  /\ pc' = [pc EXCEPT ![p] = "save_seats"]
  /\ UNCHANGED << seat_blob, reservations_blob, clock, schedule_id,
                  seat_ids_str, locals, response, calls, call_no, returned,
                  acked, reads >>

\* lines 696 to 697: the write of the reservation file raises
SaveReservationsFail(p) ==
  /\ pc[p] = "save_reservations"
  /\ Return(p, Error("Failed to save reservation data.", <<>>))
  /\ UNCHANGED << seat_blob, reservations_blob, clock, schedule_id,
                  seat_ids_str, calls, call_no, returned,
                  acked, reads >>

\* lines 699 to 701 and 705 to 725: rewrite the seat file with the local
\* seat_data and return the reservation
SaveSeats(p) ==
  /\ pc[p] = "save_seats"
  /\ seat_blob' = seat_data[p]
  /\ returned' = returned \cup
       {[call |-> call_no[p], reservation |-> reservation_data[p]]}
  /\ Return(p, Success(reservation_data[p]))
  /\ reads' = <<>>
  /\ UNCHANGED << reservations_blob, clock, schedule_id, seat_ids_str,
                  calls, call_no, acked >>

\* mutant of SaveSeatsFail: when the write of the seat file raises, the
\* invocation goes back to write the reservation file again, without a bound
SaveSeatsFail_Retry(p) ==
  /\ pc[p] = "save_seats"
  /\ pc' = [pc EXCEPT ![p] = "save_reservations"]
  /\ UNCHANGED << seat_blob, reservations_blob, clock, schedule_id,
                  seat_ids_str, locals, response, calls, call_no, returned,
                  acked, reads >>

\* lines 702 to 703: the write of the seat file raises
SaveSeatsFail(p) ==
  /\ pc[p] = "save_seats"
  /\ Return(p, Error("Failed to update seat availability.", <<>>))
  /\ UNCHANGED << seat_blob, reservations_blob, clock, schedule_id,
                  seat_ids_str, calls, call_no, returned,
                  acked, reads >>

\* time passes
Tick ==
  /\ clock < MaxClock
  /\ clock' = clock + 1
  /\ UNCHANGED << seat_blob, reservations_blob, pc, schedule_id, seat_ids_str,
                  locals, response, calls, call_no, returned, acked, reads >>

(* ------------------------------ read paths ----------------------------- *)
\* get_show_schedule, lines 351 to 360: the seat counts of a schedule
get_show_schedule_counts(seat_info) ==
  LET RECURSIVE Sum(_, _)
      Sum(f, rs) == IF rs = {} THEN 0
                    ELSE LET r == CHOOSE x \in rs : TRUE
                         IN Len(f[r]) + Sum(f, rs \ {r})
      available_count == Sum(seat_info.available_seats,
                             DOMAIN seat_info.available_seats)
      occupied_count == Sum(seat_info.occupied_seats,
                            DOMAIN seat_info.occupied_seats)
  IN [available_seats_count |-> available_count,
      total_seats_count |-> available_count + occupied_count]

\* get_seat_availability, lines 480 to 503: the rows with their numbers sorted
get_seat_availability(seat_info) ==
  [available_seats |-> [r \in DOMAIN seat_info.available_seats |->
                          sorted(seat_info.available_seats[r])],
   occupied_seats |-> [r \in DOMAIN seat_info.occupied_seats |->
                         sorted(seat_info.occupied_seats[r])]]

\* get_reservation_details, lines 768 to 860, on the reservation file given
get_reservation_details(content, rid) ==
  LET loaded == load_jsonl_from_blob(content)
      ri == FirstTrue([i \in 1..Len(loaded.value) |->
                         loaded.value[i].reservation_id = rid])
      si == find_schedule(loaded.value[ri].schedule_id)
  IN IF rid = <<>> THEN Error("reservation_id is required.", <<>>)
     ELSE IF Len(rid) > 30 THEN Error("Reservation ID too long.", <<>>)
     ELSE IF loaded.raised THEN Error("Failed to load reservation data.", <<>>)
     ELSE IF ri = 0 THEN Error("Reservation not found.", <<>>)
     ELSE IF si = 0 THEN Error("Schedule not found.", <<>>)
     ELSE IF find_movie(schedules[si].movie_id) = 0
          THEN Error("Movie not found.", <<>>)
     ELSE Success(loaded.value[ri])

\* mutant of seat_availability_response: the view is taken from the seat data
\* a reserve_seats invocation holds in memory, when one holds the schedule's
seat_availability_response_InMemory(content, sid) ==
  LET holders == {p \in Procs : sid \in DOMAIN seat_data[p]}
  IN IF find_schedule(sid) = 0
     THEN [error |-> "Schedule not found.", view |-> NoSeatData]
     ELSE IF holders # {}
     THEN [error |-> "",
           view |-> get_seat_availability(
                      seat_data[CHOOSE p \in holders : TRUE][sid])]
     ELSE [error |-> "", view |-> get_seat_availability(content[sid])]

\* get_seat_availability, lines 418 to 509, on the seat file given: the error
\* of the first check that fails, or the sorted view of the schedule's seats
seat_availability_response(content, sid) ==
  IF sid = <<>> THEN [error |-> "schedule_id is required.", view |-> NoSeatData]
  ELSE IF Len(sid) > 20
  THEN [error |-> "Schedule ID too long. Maximum 20 characters.",
        view |-> NoSeatData]
  ELSE IF find_schedule(sid) = 0
  THEN [error |-> "Schedule not found.", view |-> NoSeatData]
  ELSE IF find_movie(schedules[find_schedule(sid)].movie_id) = 0
  THEN [error |-> "Movie not found.", view |-> NoSeatData]
  ELSE IF sid \notin DOMAIN content
  THEN [error |-> "Seat data not available.", view |-> NoSeatData]
  ELSE [error |-> "", view |-> get_seat_availability(content[sid])]

\* the schedule_id arguments of get_seat_availability
QueryArgs == {S1, SX}

\* one invocation of get_seat_availability: it reads the three blobs through
\* input bindings and returns; it has no output binding
GetSeatAvailability(sid) ==
  /\ Len(reads) < MaxReads
  /\ reads' = Append(reads, [schedule_id |-> sid,
                             result |-> seat_availability_response(seat_blob, sid)])
  /\ UNCHANGED << seat_blob, reservations_blob, clock, pc, schedule_id,
                  seat_ids_str, locals, response, calls, call_no, returned,
                  acked >>

Next ==
  \/ \E p \in Procs, r \in Requests : Invoke(p, r[1], r[2])
  \/ \E p \in Procs : LoadSeats(p)
  \/ \E p \in Procs : CheckSeats(p)
  \/ \E p \in Procs : LoadReservations(p)
  \/ \E p \in Procs : SaveReservations(p)
  \/ \E p \in Procs : SaveReservationsFail(p)
  \/ \E p \in Procs : SaveSeats(p)
  \/ \E p \in Procs : SaveSeatsFail(p)
  \/ \E sid \in QueryArgs : GetSeatAvailability(sid)
  \/ Tick

Spec == Init /\ [][Next]_vars

(* ------------------------- vocabulary of the claims -------------------- *)
\* no invocation is in progress
Settled == \A p \in Procs : pc[p] \in {"idle", "done"}

\* a seat as (row, number)
SeatOf(seat_id) == <<seat_id[1], IntOf(Tail(seat_id))>>
SeatsOf(ids) == {SeatOf(ids[i]) : i \in 1..Len(ids)}

AvailableSeats(data, sid) ==
  UNION {{<<r, n>> : n \in Range(data[sid].available_seats[r])} :
           r \in DOMAIN data[sid].available_seats}
OccupiedSeats(data, sid) ==
  UNION {{<<r, n>> : n \in Range(data[sid].occupied_seats[r])} :
           r \in DOMAIN data[sid].occupied_seats}
\* the seats the bookings moved to occupied
NewlyOccupied(sid) ==
  OccupiedSeats(seat_blob, sid) \ OccupiedSeats(InitialSeatData, sid)

\* the seats of the calls that returned a reservation for the schedule
ReturnedSeats(sid) ==
  UNION {SeatsOf(r.reservation.seat_ids) :
           r \in {x \in returned : x.reservation.schedule_id = sid}}

NoDuplicates(s) == \A i, j \in 1..Len(s) : i # j => s[i] # s[j]

\* the invocation ended because a store write raised
WriteFailed(p) ==
  response[p].error \in {"Failed to save reservation data.",
                         "Failed to update seat availability."}

(* ------------------------------- claims -------------------------------- *)
\* C1: no double booking. Once all calls have settled, and when no returned
\* reservation names a seat twice by itself, no two calls that returned a
\* reservation for the same screening share a seat, and no row's occupied
\* list holds a number twice.
C1_NoDoubleBooking ==
  (Settled /\ \A r \in returned : NoDuplicates(r.reservation.seat_ids)) =>
    /\ \A r1, r2 \in returned :
         (r1 # r2 /\ r1.reservation.schedule_id = r2.reservation.schedule_id)
           => SeatsOf(r1.reservation.seat_ids)
                \cap SeatsOf(r2.reservation.seat_ids) = {}
    /\ \A sid \in DOMAIN seat_blob :
         \A r \in DOMAIN seat_blob[sid].occupied_seats :
           NoDuplicates(seat_blob[sid].occupied_seats[r])

\* C2: two calls for the same single seat of the same screening, available
\* beforehand, neither hitting a store failure: exactly one returns a
\* reservation and the other a seat-unavailable error naming the seat.
C2_ExactlyOneWins ==
  \A p, q \in Procs :
    ( /\ p # q /\ calls = 2
      /\ pc[p] = "done" /\ pc[q] = "done"
      /\ ~WriteFailed(p) /\ ~WriteFailed(q)
      /\ schedule_id[p] = schedule_id[q]
      /\ schedule_id[p] \in DOMAIN InitialSeatData
      /\ parse_seat_ids(seat_ids_str[p]) = parse_seat_ids(seat_ids_str[q])
      /\ Len(parse_seat_ids(seat_ids_str[p])) = 1
      /\ parse_seat_ids(seat_ids_str[p])[1]
           \in available_seat_set(InitialSeatData[schedule_id[p]]) )
    => \E w, l \in {p, q} :
         /\ w # l
         /\ response[w].kind = "reservation"
         /\ response[l] = Error("Seat is already occupied.",
                                parse_seat_ids(seat_ids_str[p])[1])

\* C3: no booking is lost. Once all calls have settled, the seats newly
\* marked occupied are exactly the seats of the calls that returned a
\* reservation.
C3_NoLostBooking ==
  Settled => \A sid \in DOMAIN seat_blob :
               NewlyOccupied(sid) = ReturnedSeats(sid)

\* C4: partition invariant. For every screening and row the available and
\* the occupied numbers are disjoint, and the seat total the schedule
\* listing counts is the one at creation.
C4_Partition ==
  \A sid \in DOMAIN seat_blob :
    /\ \A r \in Rows :
         Range(seat_blob[sid].available_seats[r])
           \cap Range(seat_blob[sid].occupied_seats[r]) = {}
    /\ \A r \in Rows :
         Len(seat_blob[sid].available_seats[r])
           + Len(seat_blob[sid].occupied_seats[r])
         = Len(InitialSeatData[sid].available_seats[r])
           + Len(InitialSeatData[sid].occupied_seats[r])
    /\ get_show_schedule_counts(seat_blob[sid]).total_seats_count
         = get_show_schedule_counts(InitialSeatData[sid]).total_seats_count

\* C5: a seat in the occupied set of the stored seat map is not in the
\* available set of the stored seat map of the next state (hence of any
\* later state).
C5_OccupiedForever ==
  [][\A sid \in DOMAIN seat_blob :
       \A seat \in OccupiedSeats(seat_blob, sid) :
         seat \notin AvailableSeats(seat_blob', sid)]_vars

\* the seats of the records of the reservation file for the schedule
LoggedSeats(sid) ==
  UNION {SeatsOf(reservations_blob[i].json.seat_ids) :
           i \in {k \in 1..Len(reservations_blob) :
                    reservations_blob[k].json.schedule_id = sid}}

\* C6: no partial success. For the first call on the deployed data: when it
\* ends with an error, the seat file and the reservation file are as they
\* were before the call; when it returns a reservation, the record is in the
\* reservation file and its seats are occupied in the seat file.
C6_NoPartialSuccess ==
  \A p \in Procs :
    (calls = 1 /\ pc[p] = "done") =>
      /\ response[p].kind = "error" =>
           (seat_blob = InitialSeatData /\ reservations_blob = <<>>)
      /\ response[p].kind = "reservation" =>
           /\ \E i \in 1..Len(reservations_blob) :
                reservations_blob[i] = JsonLine(response[p].reservation)
           /\ SeatsOf(response[p].reservation.seat_ids)
                \subseteq OccupiedSeats(seat_blob, schedule_id[p])

\* C7: the seat map and the reservation log agree. When every call so far
\* has returned a reservation (none naming a seat twice by itself) and none
\* is in progress, the seats moved to occupied are, for every screening,
\* exactly the seats of the log records of that screening, and no seat is in
\* two records (or twice in one).
C7_MapAndLogAgree ==
  ( /\ Settled /\ calls > 0 /\ Cardinality(returned) = calls
    /\ \A r \in returned : NoDuplicates(r.reservation.seat_ids) ) =>
    \A sid \in DOMAIN seat_blob :
      /\ NewlyOccupied(sid) = LoggedSeats(sid)
      /\ \A i, j \in 1..Len(reservations_blob) :
           (i # j /\ reservations_blob[i].json.schedule_id = sid
                  /\ reservations_blob[j].json.schedule_id = sid)
             => SeatsOf(reservations_blob[i].json.seat_ids)
                  \cap SeatsOf(reservations_blob[j].json.seat_ids) = {}
      /\ \A i \in 1..Len(reservations_blob) :
           reservations_blob[i].json.schedule_id = sid
             => NoDuplicates(reservations_blob[i].json.seat_ids)

\* C8: reservation findability. Looking up the id of any reservation that
\* was returned gives a record with the same seat_ids and schedule id.
C8_Findable ==
  \A r \in returned :
    LET found == get_reservation_details(reservations_blob,
                                         r.reservation.reservation_id)
    IN /\ found.kind = "reservation"
       /\ found.reservation.seat_ids = r.reservation.seat_ids
       /\ found.reservation.schedule_id = r.reservation.schedule_id

\* C9: reservation ids are unique: no two records of the reservation file
\* have the same reservation_id.
C9_UniqueIds ==
  \A i, j \in 1..Len(reservations_blob) :
    i # j => reservations_blob[i].json.reservation_id
               # reservations_blob[j].json.reservation_id

\* C10: the reservation log is append-only: every record of the reservation
\* file is, unchanged, in the reservation file of the next state.
C10_AppendOnly ==
  [][\A i \in 1..Len(reservations_blob) :
       \E j \in 1..Len(reservations_blob') :
         reservations_blob'[j] = reservations_blob[i]]_vars

\* the error texts with which reserve_seats rejects the shape of its
\* arguments (lines 559 to 581)
ValidationErrors ==
  {"schedule_id is required.", "seat_ids is required.",
   "Schedule ID too long.", "Seat IDs string too long.",
   "No valid seat IDs provided.", "Invalid seat ID format"}

\* the seat (row and number) is on the seat map of the schedule as deployed
SeatExists(sid, seat_id) ==
  SeatOf(seat_id) \in AvailableSeats(InitialSeatData, sid)
                        \cup OccupiedSeats(InitialSeatData, sid)

\* C11: a request that names the same seat id more than once ends (when no
\* store write raises) with a validation error, and (for the first call on
\* the deployed data) neither the seat file nor the reservation file is
\* changed.
C11_DuplicateRejected ==
  \A p \in Procs :
    ( /\ pc[p] = "done" /\ ~WriteFailed(p)
      /\ ~NoDuplicates(parse_seat_ids(seat_ids_str[p])) ) =>
      /\ response[p].kind = "error"
      /\ response[p].error \in ValidationErrors
      /\ calls = 1 => (seat_blob = InitialSeatData /\ reservations_blob = <<>>)

\* C12: a request for a well-formed seat id that is not on the screening's
\* seat map at all ends with a validation error, not with the
\* seat-unavailable error, and (for the first call on the deployed data) the
\* seat file and the seat availability view are unchanged.
C12_UnknownSeatIsValidationError ==
  \A p \in Procs :
    ( /\ pc[p] = "done"
      /\ schedule_id[p] \in DOMAIN InitialSeatData
      /\ parse_seat_ids(seat_ids_str[p]) # <<>>
      /\ \A i \in 1..Len(parse_seat_ids(seat_ids_str[p])) :
           validate_seat_id_format(parse_seat_ids(seat_ids_str[p])[i])
      /\ \E i \in 1..Len(parse_seat_ids(seat_ids_str[p])) :
           ~SeatExists(schedule_id[p], parse_seat_ids(seat_ids_str[p])[i]) )
    => /\ response[p].kind = "error"
       /\ response[p].error \in ValidationErrors
       /\ response[p].error # "Seat is already occupied."
       /\ calls = 1 =>
            /\ seat_blob = InitialSeatData
            /\ get_seat_availability(seat_blob[schedule_id[p]])
                 = get_seat_availability(InitialSeatData[schedule_id[p]])

\* the arguments pass the shape checks of lines 559 to 581
ShapeValid(sid, str) ==
  /\ sid # <<>> /\ Len(sid) <= 20
  /\ str # <<>> /\ Len(str) <= 100
  /\ parse_seat_ids(str) # <<>>
  /\ \A i \in 1..Len(parse_seat_ids(str)) :
       validate_seat_id_format(parse_seat_ids(str)[i])

ScheduleInCatalog(sid) ==
  \E i \in 1..Len(schedules) : schedules[i].schedule_id = sid
MovieInCatalog(sid) ==
  \E i \in 1..Len(schedules), j \in 1..Len(movies) :
    schedules[i].schedule_id = sid /\ movies[j].movie_id = schedules[i].movie_id

\* process p starts an invocation in this step
Invoked(p) == call_no'[p] # call_no[p]

\* C13: a request (of valid shape) for a schedule id that is not in the
\* catalog ends at once with "Schedule not found.", one for a schedule whose
\* movie is not in the catalog with "Movie not found.", and the step changes
\* neither the seat file nor the reservation file.
C13_NotFound ==
  [][\A p \in Procs :
       ( /\ Invoked(p)
         /\ ShapeValid(schedule_id'[p], seat_ids_str'[p])
         /\ ~MovieInCatalog(schedule_id'[p]) )
       => /\ pc'[p] = "done"
          /\ response'[p] =
               IF ScheduleInCatalog(schedule_id'[p])
               THEN Error("Movie not found.", <<>>)
               ELSE Error("Schedule not found.", <<>>)
          /\ seat_blob' = seat_blob
          /\ reservations_blob' = reservations_blob]_vars

\* both not-found cases have happened
C13_Witness ==
  \E p, q \in Procs :
    /\ pc[p] = "done" /\ pc[q] = "done"
    /\ ShapeValid(schedule_id[p], seat_ids_str[p])
    /\ ShapeValid(schedule_id[q], seat_ids_str[q])
    /\ ~ScheduleInCatalog(schedule_id[p])
    /\ response[p] = Error("Schedule not found.", <<>>)
    /\ ScheduleInCatalog(schedule_id[q]) /\ ~MovieInCatalog(schedule_id[q])
    /\ response[q] = Error("Movie not found.", <<>>)

\* C14: when process p checks a request of several seats of which one is
\* occupied in the seat map it read, the call ends with the seat-unavailable
\* error naming the first requested seat that is not available in that map,
\* and the step changes neither the seat file nor the reservation file (the
\* call has ended, so it writes nothing later either).
C14_FirstUnavailableSeat ==
  [][\A p \in Procs :
       ( /\ pc[p] = "check_seats" /\ pc'[p] # "check_seats"
         /\ Len(seat_ids[p]) >= 2
         /\ \E i \in 1..Len(seat_ids[p]) :
              SeatOf(seat_ids[p][i]) \in OccupiedSeats(seat_data[p], schedule_id[p]) )
       => /\ pc'[p] = "done"
          /\ response'[p].kind = "error"
          /\ response'[p].error = "Seat is already occupied."
          /\ \E i \in 1..Len(seat_ids[p]) :
               /\ response'[p].seat_id = seat_ids[p][i]
               /\ SeatOf(seat_ids[p][i])
                    \notin AvailableSeats(seat_data[p], schedule_id[p])
               /\ \A j \in 1..(i - 1) :
                    SeatOf(seat_ids[p][j])
                      \in AvailableSeats(seat_data[p], schedule_id[p])
          /\ seat_blob' = seat_blob
          /\ reservations_blob' = reservations_blob]_vars

\* a request for the occupied A3 and the available A1 was refused naming A3,
\* and A1 is still available
C14_Witness ==
  \E p \in Procs :
    /\ pc[p] = "done"
    /\ schedule_id[p] = S1
    /\ parse_seat_ids(seat_ids_str[p]) = << <<"A","3">>, <<"A","1">> >>
    /\ response[p] = Error("Seat is already occupied.", <<"A","3">>)
    /\ <<"A", 1>> \in AvailableSeats(seat_blob, S1)
    /\ <<"A", 1>> \notin OccupiedSeats(seat_blob, S1)
    /\ reservations_blob = <<>>

\* the numbers of row r among the requested seat ids
RequestedNumbers(ids, r) == {s[2] : s \in {x \in SeatsOf(ids) : x[1] = r}}

\* C15: when a call returns a reservation and no invocation was ever made by
\* another process, the step that stores the seat map takes every requested
\* seat out of its row's available numbers and into its occupied numbers in
\* the seat availability view of the schedule, leaves every other seat and
\* every other schedule as they were, and the reservation returned carries
\* the requested seat ids and status confirmed.
C15_ReserveEffect ==
  [][\A p \in Procs :
       ( /\ pc[p] = "save_seats" /\ response'[p].kind = "reservation"
         /\ \A q \in Procs \ {p} : call_no[q] = 0 )
       => LET sid == schedule_id[p]
              ids == parse_seat_ids(seat_ids_str[p])
              before == get_seat_availability(seat_blob[sid])
              after == get_seat_availability(seat_blob'[sid])
          IN /\ \A r \in Rows :
                  /\ after.available_seats[r]
                       = SelectSeq(before.available_seats[r],
                                   LAMBDA n : n \notin RequestedNumbers(ids, r))
                  /\ Range(after.occupied_seats[r])
                       = Range(before.occupied_seats[r])
                           \cup RequestedNumbers(ids, r)
                  /\ Range(after.available_seats[r])
                       \cap Range(after.occupied_seats[r]) = {}
             /\ SeatsOf(ids) \subseteq OccupiedSeats(seat_blob', sid)
             /\ \A other \in DOMAIN seat_blob \ {sid} :
                  seat_blob'[other] = seat_blob[other]
             /\ response'[p].reservation.seat_ids = ids
             /\ response'[p].reservation.schedule_id = sid
             /\ response'[p].reservation.status = "confirmed"]_vars

\* a second call in a row by the same process returned a reservation
C15_Witness ==
  \E p \in Procs :
    /\ \A q \in Procs \ {p} : call_no[q] = 0
    /\ call_no[p] = 2
    /\ pc[p] = "done" /\ response[p].kind = "reservation"
    /\ Cardinality(returned) = 2
    /\ SeatsOf(parse_seat_ids(seat_ids_str[p]))
         \subseteq OccupiedSeats(seat_blob, schedule_id[p])

\* C16: different screenings are independent: a step of a reserve call on
\* one schedule leaves the stored seat map of every other schedule as it is
\* (so that concurrent bookings on two schedules both take effect).
C16_ScreeningsIndependent ==
  [][\A p \in Procs :
       (pc[p] # "idle" /\ pc[p] # "done") =>
         \A other \in DOMAIN seat_blob \ {schedule_id[p]} :
           (\A q \in Procs \ {p} : pc'[q] = pc[q])
             => seat_blob'[other] = seat_blob[other]]_vars

\* C17: no blind read-modify-write. Every write of the seat file by a call
\* is the move of the call's seats applied to the seat map that is stored
\* at that moment: a call whose copy is no longer the stored state does not
\* commit it (of two calls that read the same state at most one commits).
C17_NoBlindWrite ==
  [][\A p \in Procs :
       (pc[p] = "save_seats" /\ response'[p].kind = "reservation") =>
         seat_blob' = [seat_blob EXCEPT ![schedule_id[p]] =
                         move_seats(seat_blob[schedule_id[p]], seat_ids[p])]]_vars

\* C18: two get_seat_availability calls for the same screening with no
\* booking in between return identical results, and a call of
\* get_seat_availability changes neither the seat map nor the reservation log.
C18_IdempotentRead ==
  [][reads' # reads /\ reads' # <<>> =>
       /\ seat_blob' = seat_blob
       /\ reservations_blob' = reservations_blob
       /\ \A i \in 1..Len(reads) :
            reads[i].schedule_id = reads'[Len(reads')].schedule_id =>
              reads[i].result = reads'[Len(reads')].result]_vars
\* the same screening is read twice after a booking on it, and no booking
\* is committed between the two reads while one is under way
C18_Witness ==
  /\ Len(reads) = 2
  /\ reads[1].schedule_id = S1 /\ reads[2].schedule_id = S1
  /\ reads[1].result.view # get_seat_availability(InitialSeatData[S1])
  /\ \E p \in Procs : pc[p] = "save_seats"

\* C19: a reserve call reports success only after its write of the
\* reservation log was acknowledged: every reservation returned to a caller
\* belongs to an invocation whose write of reservations.jsonl had returned.
C19_SuccessAfterLogWrite ==
  \A r \in returned : r.call \in acked
\* an invocation returned a reservation after an earlier invocation had its
\* log write acknowledged and then failed to write the seat file
C19_Witness ==
  /\ \E p \in Procs : /\ pc[p] = "done"
                      /\ response[p].kind = "reservation"
                      /\ call_no[p] \in acked
  /\ \E c \in acked : \A r \in returned : r.call # c

(* --------------- a reservation log with one corrupted line -------------- *)
\* a reservation made earlier: seat A3 of S1, occupied in InitialSeatData
PriorReservation ==
  [reservation_id |-> <<"R", "E", "S", "9">>,
   schedule_id |-> S1,
   seat_ids |-> << <<"A", "3">> >>,
   reservation_time |-> 0,
   status |-> "confirmed"]

\* the state after construction, but reservations.jsonl holds the earlier
\* reservation and one line that is not JSON
InitCorrupt ==
  /\ seat_blob = InitialSeatData
  /\ reservations_blob = << JsonLine(PriorReservation), MalformedLine >>
  /\ clock = 0
  /\ pc = [p \in Procs |-> "idle"]
  /\ schedule_id = [p \in Procs |-> <<>>]
  /\ seat_ids_str = [p \in Procs |-> <<>>]
  /\ seat_ids = [p \in Procs |-> <<>>]
  /\ seat_data = [p \in Procs |-> NoSeatData]
  /\ reservation_data = [p \in Procs |-> NoReservation]
  /\ existing_reservations = [p \in Procs |-> <<>>]
  /\ response = [p \in Procs |-> NoResponse]
  /\ calls = 0
  /\ call_no = [p \in Procs |-> 0]
  /\ returned = {}
  /\ acked = {}
  /\ reads = <<>>

SpecCorrupt == InitCorrupt /\ [][Next]_vars

\* the well-formed records of a reservation file
WellFormed(content) ==
  {content[i].json : i \in {j \in 1..Len(content) : ~content[j].malformed}}
HasMalformed(content) ==
  \E i \in 1..Len(content) : content[i].malformed

\* C20: with one malformed line in the reservation log, a lookup of any
\* well-formed reservation by its id still returns it, and a reserve call
\* that writes the log keeps all its well-formed records.
C20_CorruptionTolerated ==
  /\ [](HasMalformed(reservations_blob) =>
          \A r \in WellFormed(reservations_blob) :
            get_reservation_details(reservations_blob, r.reservation_id)
              = Success(r))
  /\ [][HasMalformed(reservations_blob) =>
          WellFormed(reservations_blob) \subseteq WellFormed(reservations_blob')]_vars

\* C21: every record written to the reservation log has a non-empty seat_ids
\* sequence without duplicates, every element of which is a seat of the seat
\* map of the record's own screening.
C21_LoggedSeatIdsWellFormed ==
  \A r \in WellFormed(reservations_blob) :
    /\ r.seat_ids # <<>>
    /\ NoDuplicates(r.seat_ids)
    /\ \A i \in 1..Len(r.seat_ids) : SeatExists(r.schedule_id, r.seat_ids[i])

(* ------------------------------ termination ---------------------------- *)
\* the steps of one invocation of reserve_seats after its arguments passed
Step(p) ==
  \/ LoadSeats(p)
  \/ CheckSeats(p)
  \/ LoadReservations(p)
  \/ SaveReservations(p)
  \/ SaveReservationsFail(p)
  \/ SaveSeats(p)
  \/ SaveSeatsFail(p)

\* the Functions host runs every invocation on, and every blob call returns
\* or raises
NextReserve ==
  \/ \E p \in Procs, r \in Requests : Invoke(p, r[1], r[2])
  \/ \E p \in Procs : Step(p)
  \/ Tick

\* the reserve_seats invocations alone, each of them run on
FairSpec == Init /\ [][NextReserve]_vars /\ \A p \in Procs : WF_vars(Step(p))

\* C22: under any interleaving with other reserve calls, every reserve call
\* eventually ends, with either a reservation or an error.
C22_Terminates ==
  /\ \A p \in Procs : (pc[p] \notin {"idle", "done"}) ~> (pc[p] = "done")
  /\ [](\A p \in Procs :
          pc[p] = "done" => response[p].kind \in {"reservation", "error"})
\* two calls for the same seat were under way together and both have ended,
\* one with a reservation and one with an error
C22_Witness ==
  /\ \A p \in Procs : pc[p] = "done" /\ schedule_id[p] = S1
                      /\ seat_ids_str[p] = <<"A", "1">>
  /\ call_no[1] = 1 /\ call_no[2] = 2
  /\ response[1].error = "Seat is already occupied."
  /\ response[2].kind = "reservation"

\* the list of seat ids of the request is empty, or one of its ids is not a
\* row letter followed by a number
BadSeatList(str) ==
  \/ parse_seat_ids(str) = <<>>
  \/ \E i \in 1..Len(parse_seat_ids(str)) :
       LET id == parse_seat_ids(str)[i]
       IN \/ Len(id) < 2
          \/ id[1] \notin UpperLetters
          \/ \E j \in 2..Len(id) : id[j] \notin DigitChars

\* C23: a reserve request whose seat list is empty or contains an id that
\* does not match the seat-identifier grammar ends, in the step that takes it
\* in, with a validation error, whether or not the screening exists; it reads
\* no store and writes none.
C23_ShapeValidationFirst ==
  [][\A p \in Procs :
       (Invoked(p) /\ BadSeatList(seat_ids_str'[p]))
       => /\ pc'[p] = "done"
          /\ response'[p].kind = "error"
          /\ response'[p].error \in ValidationErrors
          /\ seat_data'[p] = NoSeatData
          /\ existing_reservations'[p] = <<>>
          /\ seat_blob' = seat_blob
          /\ reservations_blob' = reservations_blob]_vars
\* a malformed seat id was rejected for a screening that exists and for one
\* that does not
C23_Witness ==
  /\ \A p \in Procs : /\ pc[p] = "done"
                      /\ seat_ids_str[p] = <<"a", "1">>
                      /\ response[p].error = "Invalid seat ID format"
  /\ schedule_id[1] = S1
  /\ schedule_id[2] = SX

\* C24: in every reachable state, the states between the two store writes of
\* a reserve call included, every seat named by a record of the reservation
\* log is occupied, and not available, in the stored seat map of the record's
\* screening.
C24_LoggedSeatsOccupied ==
  \A r \in WellFormed(reservations_blob) :
    /\ SeatsOf(r.seat_ids) \subseteq OccupiedSeats(seat_blob, r.schedule_id)
    /\ SeatsOf(r.seat_ids) \cap AvailableSeats(seat_blob, r.schedule_id) = {}

\* the numbers of a row in ascending order
Ascending(s) == \A i, j \in 1..Len(s) : i < j => s[i] <= s[j]
\* the number of seats listed in a set of rows
RECURSIVE SeatCount(_, _)
SeatCount(rows, rs) ==
  IF rs = {} THEN 0
  ELSE LET r == CHOOSE x \in rs : TRUE
       IN Len(rows[r]) + SeatCount(rows, rs \ {r})

\* C25: for every stored seat map, get_seat_availability returns each row's
\* available numbers and occupied numbers in ascending order, and the counts
\* of get_show_schedule satisfy total_count = available_count + occupied_count.
C25_SortedViewAndCounts ==
  \A sid \in DOMAIN seat_blob :
    LET view == seat_availability_response(seat_blob, sid).view
        counts == get_show_schedule_counts(seat_blob[sid])
    IN /\ \A r \in DOMAIN view.available_seats :
            /\ Ascending(view.available_seats[r])
            /\ Range(view.available_seats[r])
                 = Range(seat_blob[sid].available_seats[r])
       /\ \A r \in DOMAIN view.occupied_seats :
            /\ Ascending(view.occupied_seats[r])
            /\ Range(view.occupied_seats[r])
                 = Range(seat_blob[sid].occupied_seats[r])
       /\ counts.available_seats_count
            = SeatCount(seat_blob[sid].available_seats,
                        DOMAIN seat_blob[sid].available_seats)
       /\ counts.total_seats_count
            = counts.available_seats_count
              + SeatCount(seat_blob[sid].occupied_seats,
                          DOMAIN seat_blob[sid].occupied_seats)
\* a reserve call that named its seats in descending order has committed
C25_Witness ==
  /\ \E r \in returned : r.reservation.seat_ids = << <<"A", "2">>, <<"A", "1">> >>
  /\ seat_blob[S1].occupied_seats["A"] = <<1, 2, 3>>
  /\ seat_blob[S1].available_seats["A"] = <<>>

(* --------------------------- abandoned calls --------------------------- *)
\* the invocation of p is abandoned (the worker is stopped, or the host
\* cancels the invocation) at the point it has reached; nothing it holds in
\* memory survives and nobody gets a response
Crash(p) ==
  /\ pc[p] \notin {"idle", "done"}
  /\ Return(p, NoResponse)
  /\ UNCHANGED << seat_blob, reservations_blob, clock, schedule_id,
                  seat_ids_str, calls, call_no, returned, acked, reads >>

NextCrash ==
  \/ NextReserve
  \/ \E p \in Procs : Crash(p)

\* the reserve_seats invocations, each of which may be abandoned
SpecCrash == Init /\ [][NextCrash]_vars

\* C26: abandoning a reserve call at any point leaves the stored state either
\* as it was before the call or with both the seat-map change and the log
\* record stored (stated for the first call on the deployed data).
C26_CrashAtomic ==
  \A p \in Procs :
    (calls = 1 /\ pc[p] = "done" /\ response[p] = NoResponse) =>
      \/ seat_blob = InitialSeatData /\ reservations_blob = <<>>
      \/ /\ Len(reservations_blob) = 1
         /\ reservations_blob[1].json.schedule_id = schedule_id[p]
         /\ seat_blob =
              [InitialSeatData EXCEPT ![schedule_id[p]] =
                 move_seats(InitialSeatData[schedule_id[p]],
                            reservations_blob[1].json.seat_ids)]
====
